---- MODULE Spec2Model ----
(***************************************************************************)
(* Model of the glossary graph server (src/glossary_server.py):            *)
(* GlossaryGraph loads terms.csv and links.csv into a term dict and two    *)
(* adjacency defaultdicts, and GlossaryService answers GetTerm,            *)
(* GetAllTerms, GetTermRelations and FindPath over the loaded graph.       *)
(***************************************************************************)
EXTENDS Integers, Sequences, FiniteSets, TLC

(* ---------- bounds of the model ---------- *)
\* rows read from terms.csv
MaxTermRows == 2
\* rows read from links.csv (specifications Spec, SpecService, SpecQueries,
\* SpecRows, SpecWorkers)
MaxLinkRows == 2
\* rows read from links.csv (specifications SpecPath, SpecSearch)
MaxPathLinkRows == 3
\* rows read from links.csv (specification SpecTies)
MaxTieLinkRows == 4
\* largest positive depth bound passed by a caller
MaxDepth == 2

(* ---------- input alphabets ---------- *)
\* the names a caller may ask about
Names == {"A", "B", "C"}
\* the names of a request: a request may also leave the name empty
QueryNames == Names \cup {""}
\* the names that occur in the input files of specification Spec
LoadNames == {"A", "B"}
Definitions == {"defA", "defB"}
RelationTypes == {"uses", "implements"}

\* a row of terms.csv: <<term, definition>>
TermRows == LoadNames \X Definitions
\* a row of links.csv: <<source, target, relation>>
LinkRows == LoadNames \X LoadNames \X RelationTypes
\* the rows of the path specifications: one definition, one relation type
PathTermRows == Names \X {"defA"}
PathLinkRows == Names \X Names \X {"uses"}
\* the terms of specification SpecPath: the two ends of a search; the third
\* name occurs in relations only (find_path reads the term store for the
\* source and the target alone)
SearchTermRows == {"A", "C"} \X {"defA"}
\* the relations of specification SpecTies: two routes of two hops between
\* "A" and "C", through "B" and through "D", in either stored direction
TieLinkRows ==
    {<<"A", "B", "uses">>, <<"A", "D", "uses">>, <<"D", "A", "uses">>,
     <<"B", "C", "uses">>, <<"D", "C", "uses">>, <<"C", "D", "uses">>}

\* Python's None: what csv.DictReader gives for a field a short row lacks
None == "None"
\* rows of terms.csv and links.csv that end before their last field
ShortTermRows == LoadNames \X {None}
ShortLinkRows == (LoadNames \X {None} \X {None}) \cup (LoadNames \X LoadNames \X {None})
\* the rows of specification SpecRows: complete rows and short rows
RowsTermRows == (LoadNames \X {"defA"}) \cup ShortTermRows
RowsLinkRows == (LoadNames \X LoadNames \X {"uses"}) \cup ShortLinkRows

\* an input file: readable with every column, not there, or readable with a
\* header that lacks a required column
FileStates == {"ok", "absent", "no_column"}

\* two of the worker threads of the pool (max_workers=10)
Workers == {"w1", "w2"}
\* a worker that runs no find_path call
IdleSearch == [status |-> "idle"]
\* source_term and target_term of the requests the workers take
SearchNames == {"A", "C"}

\* max_depth values of a request message (int32; <= 0 means "not set")
DepthArgs == (-1) .. MaxDepth
\* max_depth values of a GetTermRelations request
RelationDepthArgs == {0, 1}
\* depth bounds of a direct find_path call
DepthBounds == 0 .. MaxDepth

VARIABLES
    pc,             \* "load_terms", "load_links", "serving", "aborted", "crashed"
    terms,          \* self.terms: sequence of <<name, definition>> in dict order
    graph,          \* self.graph: key |-> sequence of <<target, relation>>
    reverse_graph,  \* self.reverse_graph: key |-> sequence of <<source, relation>>
    terms_rows,     \* rows of terms.csv consumed so far
    links_rows,     \* rows of links.csv consumed so far
    response,       \* the call being answered and what it returns; op "none" when idle
    terms_file,     \* what open(terms_file) and its header give: a FileState
    links_file,     \* what open(links_file) and its header give: a FileState
    search          \* per worker thread, the locals of the find_path call it runs

vars == <<pc, terms, graph, reverse_graph, terms_rows, links_rows, response,
          terms_file, links_file, search>>

(* ---------- helpers on the containers ---------- *)
\* keys of the terms dict
TermKeys(T) == {T[i][1] : i \in 1 .. Len(T)}

\* position of a key in the terms dict
TermIndex(T, name) == CHOOSE i \in 1 .. Len(T) : T[i][1] = name

\* DictPut keeping the first definition of a name
DictPut_FirstWins(T, name, definition) ==
    IF name \in TermKeys(T) THEN T ELSE Append(T, <<name, definition>>)

\* self.terms[name] = definition: a new key goes last, an old key keeps its place
DictPut(T, name, definition) ==
    IF name \in TermKeys(T)
    THEN [T EXCEPT ![TermIndex(T, name)] = <<name, definition>>]
    ELSE Append(T, <<name, definition>>)

\* self.terms[name]
DictGet(T, name) == T[TermIndex(T, name)][2]

\* defaultdict(list) with no key
EmptyAdj == [k \in {} |-> <<>>]

\* AdjAppend dropping an item the list already holds
AdjAppend_Dedup(d, key, item) ==
    [k \in (DOMAIN d) \cup {key} |->
        IF k = key
        THEN LET old == IF key \in DOMAIN d THEN d[key] ELSE <<>>
             IN  IF \E i \in 1 .. Len(old) : old[i] = item
                 THEN old ELSE Append(old, item)
        ELSE d[k]]

\* d[key].append(item) on a defaultdict(list): a missing key is created
AdjAppend(d, key, item) ==
    [k \in (DOMAIN d) \cup {key} |->
        IF k = key
        THEN Append(IF key \in DOMAIN d THEN d[key] ELSE <<>>, item)
        ELSE d[k]]

\* "for x in d[key]" without the "if key in d" test: the defaultdict makes the key
AdjRead_Unguarded(d, key) ==
    [items |-> IF key \in DOMAIN d THEN d[key] ELSE <<>>,
     dict |-> [k \in (DOMAIN d) \cup {key} |->
                  IF k \in DOMAIN d THEN d[k] ELSE <<>>]]

\* "if key in d: for x in d[key]": the items the loop runs over and the
\* defaultdict after it (the membership test makes no key)
AdjRead(d, key) ==
    [items |-> IF key \in DOMAIN d THEN d[key] ELSE <<>>,
     dict |-> d]

\* the defaultdict after AdjRead of each key of a set
RECURSIVE ReadKeys(_, _)
ReadKeys(d, keys) ==
    IF keys = {} THEN d
    ELSE LET key == CHOOSE k \in keys : TRUE
         IN  ReadKeys(AdjRead(d, key).dict, keys \ {key})

(* ---------- queries of GlossaryGraph ---------- *)
get_term(T, term_name) ==
    IF term_name \in TermKeys(T)
    THEN [found |-> TRUE, name |-> term_name, definition |-> DictGet(T, term_name)]
    ELSE [found |-> FALSE]

get_all_terms(T) ==
    [i \in 1 .. Len(T) |-> [name |-> T[i][1], definition |-> T[i][2]]]

\* get_term_relations reporting an incoming relation from the asked name's side
get_term_relations_Outward(G, R, term_name) ==
    LET out == IF term_name \in DOMAIN G
               THEN [i \in 1 .. Len(G[term_name]) |->
                        [source_term |-> term_name,
                         target_term |-> G[term_name][i][1],
                         relation_type |-> G[term_name][i][2]]]
               ELSE <<>>
        inc == IF term_name \in DOMAIN R
               THEN [i \in 1 .. Len(R[term_name]) |->
                        [source_term |-> term_name,
                         target_term |-> R[term_name][i][1],
                         relation_type |-> R[term_name][i][2]]]
               ELSE <<>>
    IN  out \o inc

get_term_relations(G, R, term_name) ==
    LET outgoing == AdjRead(G, term_name).items
        incoming == AdjRead(R, term_name).items
        out == [i \in 1 .. Len(outgoing) |->
                   [source_term |-> term_name,
                    target_term |-> outgoing[i][1],
                    relation_type |-> outgoing[i][2]]]
        inc == [i \in 1 .. Len(incoming) |->
                   [source_term |-> incoming[i][1],
                    target_term |-> term_name,
                    relation_type |-> incoming[i][2]]]
    IN  out \o inc

(* ---------- find_path ---------- *)
\* the default of the max_depth argument of FindPath
DefaultPathDepth == 10

MsgTermsNotFound == "one or both terms not found"
MsgSameTerms == "terms are equal"
MsgPathFound == "path found"
MsgPathNotFound == "no path within the maximum depth"

\* ScanNeighbors without the visited test: every neighbour is enqueued
RECURSIVE ScanNeighbors_NoVisited(_, _, _, _, _, _)
ScanNeighbors_NoVisited(adj, j, path, visited, next_level, target_term) ==
    IF j > Len(adj)
    THEN [found |-> FALSE, path |-> <<>>, visited |-> visited,
          next_level |-> next_level]
    ELSE LET neighbor == adj[j][1]
         IN  IF neighbor = target_term
             THEN [found |-> TRUE, path |-> Append(path, neighbor),
                   visited |-> visited, next_level |-> next_level]
             ELSE ScanNeighbors_NoVisited(adj, j + 1, path,
                      visited \cup {neighbor},
                      Append(next_level, <<neighbor, Append(path, neighbor)>>),
                      target_term)

\* one "for neighbor, _ in adj" loop of find_path, from position j on:
\* returns on the target, else enqueues the neighbours not yet visited
RECURSIVE ScanNeighbors(_, _, _, _, _, _)
ScanNeighbors(adj, j, path, visited, next_level, target_term) ==
    IF j > Len(adj)
    THEN [found |-> FALSE, path |-> <<>>, visited |-> visited,
          next_level |-> next_level]
    ELSE LET neighbor == adj[j][1]
         IN  IF neighbor = target_term
             THEN [found |-> TRUE, path |-> Append(path, neighbor),
                   visited |-> visited, next_level |-> next_level]
             ELSE IF neighbor \notin visited
             THEN ScanNeighbors(adj, j + 1, path, visited \cup {neighbor},
                      Append(next_level, <<neighbor, Append(path, neighbor)>>),
                      target_term)
             ELSE ScanNeighbors(adj, j + 1, path, visited, next_level,
                                target_term)

\* ExpandEntry with the target test left out of the reverse loop
ExpandEntry_NoReverseTargetTest(G, R, entry, visited, next_level, target_term) ==
    LET current == entry[1]
        path == entry[2]
        fwd == IF current \in DOMAIN G
               THEN ScanNeighbors(G[current], 1, path, visited, next_level,
                                  target_term)
               ELSE [found |-> FALSE, path |-> <<>>, visited |-> visited,
                     next_level |-> next_level]
    IN  IF fwd.found THEN fwd
        ELSE IF current \in DOMAIN R
        THEN ScanNeighbors(R[current], 1, path, fwd.visited, fwd.next_level, "")
        ELSE fwd

\* ExpandEntry with the reverse loop left out
ExpandEntry_ForwardOnly(G, R, entry, visited, next_level, target_term) ==
    IF entry[1] \in DOMAIN G
    THEN ScanNeighbors(G[entry[1]], 1, entry[2], visited, next_level, target_term)
    ELSE [found |-> FALSE, path |-> <<>>, visited |-> visited,
          next_level |-> next_level]

\* the body of "for current, path in queue" for one entry:
\* the forward neighbours, then the reverse neighbours
ExpandEntry(G, R, entry, visited, next_level, target_term) ==
    LET current == entry[1]
        path == entry[2]
        fwd == ScanNeighbors(AdjRead(G, current).items, 1, path, visited,
                             next_level, target_term)
    IN  IF fwd.found THEN fwd
        ELSE ScanNeighbors(AdjRead(R, current).items, 1, path, fwd.visited,
                           fwd.next_level, target_term)

\* ExpandLevel taking the entries of the queue from the last to the first
RECURSIVE ExpandLevel_LastFirst(_, _, _, _, _, _, _)
ExpandLevel_LastFirst(G, R, queue, i, visited, next_level, target_term) ==
    IF i > Len(queue)
    THEN [found |-> FALSE, path |-> <<>>, visited |-> visited,
          next_level |-> next_level]
    ELSE LET r == ExpandEntry(G, R, queue[Len(queue) - i + 1], visited,
                              next_level, target_term)
         IN  IF r.found THEN r
             ELSE ExpandLevel_LastFirst(G, R, queue, i + 1, r.visited,
                                        r.next_level, target_term)

\* "for current, path in queue" from position i on: one expansion round
RECURSIVE ExpandLevel(_, _, _, _, _, _, _)
ExpandLevel(G, R, queue, i, visited, next_level, target_term) ==
    IF i > Len(queue)
    THEN [found |-> FALSE, path |-> <<>>, visited |-> visited,
          next_level |-> next_level]
    ELSE LET r == ExpandEntry(G, R, queue[i], visited, next_level, target_term)
         IN  IF r.found THEN r
             ELSE ExpandLevel(G, R, queue, i + 1, r.visited, r.next_level,
                              target_term)

\* SearchLoop running one round too many: "depth <= max_depth"
RECURSIVE SearchLoop_OneRoundMore(_, _, _, _, _, _, _)
SearchLoop_OneRoundMore(G, R, queue, visited, depth, target_term, max_depth) ==
    IF queue # <<>> /\ depth <= max_depth
    THEN LET r == ExpandLevel(G, R, queue, 1, visited, <<>>, target_term)
         IN  IF r.found
             THEN [path_exists |-> TRUE, has_path |-> TRUE, path |-> r.path,
                   message |-> MsgPathFound]
             ELSE SearchLoop_OneRoundMore(G, R, r.next_level, r.visited,
                                          depth + 1, target_term, max_depth)
    ELSE [path_exists |-> FALSE, has_path |-> TRUE, path |-> <<>>,
          message |-> MsgPathNotFound]

\* a depth-first walk from the last name of path: adj from position j on, then
\* on from each neighbour not yet on the path, while the path is below the limit
RECURSIVE DepthFirstScan(_, _, _, _, _, _, _)
DepthFirstScan(G, R, path, adj, j, target_term, limit) ==
    IF j > Len(adj) THEN <<>>
    ELSE LET neighbor == adj[j][1]
             onPath == \E i \in 1 .. Len(path) : path[i] = neighbor
             deeper == IF ~ onPath /\ Len(path) < limit
                       THEN DepthFirstScan(G, R, Append(path, neighbor),
                                AdjRead(G, neighbor).items
                                    \o AdjRead(R, neighbor).items,
                                1, target_term, limit)
                       ELSE <<>>
         IN  IF neighbor = target_term THEN Append(path, neighbor)
             ELSE IF deeper # <<>> THEN deeper
             ELSE DepthFirstScan(G, R, path, adj, j + 1, target_term, limit)

\* SearchLoop as a depth-first search cut off at max_depth hops
SearchLoop_DepthFirst(G, R, queue, visited, depth, target_term, max_depth) ==
    LET current == queue[1][1]
        found == IF depth < max_depth
                 THEN DepthFirstScan(G, R, queue[1][2],
                          AdjRead(G, current).items \o AdjRead(R, current).items,
                          1, target_term, max_depth)
                 ELSE <<>>
    IN  IF found # <<>>
        THEN [path_exists |-> TRUE, has_path |-> TRUE, path |-> found,
              message |-> MsgPathFound]
        ELSE [path_exists |-> FALSE, has_path |-> TRUE, path |-> <<>>,
              message |-> MsgPathNotFound]

\* "while queue and depth < max_depth"
RECURSIVE SearchLoop(_, _, _, _, _, _, _)
SearchLoop(G, R, queue, visited, depth, target_term, max_depth) ==
    IF queue # <<>> /\ depth < max_depth
    THEN LET r == ExpandLevel(G, R, queue, 1, visited, <<>>, target_term)
         IN  IF r.found
             THEN [path_exists |-> TRUE, has_path |-> TRUE, path |-> r.path,
                   message |-> MsgPathFound]
             ELSE SearchLoop(G, R, r.next_level, r.visited, depth + 1,
                             target_term, max_depth)
    ELSE [path_exists |-> FALSE, has_path |-> TRUE, path |-> <<>>,
          message |-> MsgPathNotFound]

\* find_path testing "source == target" before the term store
find_path_TrivialFirst(T, G, R, source_term, target_term, max_depth) ==
    IF source_term = target_term
    THEN [path_exists |-> TRUE, has_path |-> TRUE, path |-> <<source_term>>,
          message |-> MsgSameTerms]
    ELSE IF source_term \notin TermKeys(T) \/ target_term \notin TermKeys(T)
    THEN [path_exists |-> FALSE, has_path |-> FALSE, path |-> <<>>,
          message |-> MsgTermsNotFound]
    ELSE SearchLoop(G, R, <<<<source_term, <<source_term>>>>>>, {source_term},
                    0, target_term, max_depth)

\* find_path without the "source == target" shortcut
find_path_NoTrivial(T, G, R, source_term, target_term, max_depth) ==
    IF source_term \notin TermKeys(T) \/ target_term \notin TermKeys(T)
    THEN [path_exists |-> FALSE, has_path |-> FALSE, path |-> <<>>,
          message |-> MsgTermsNotFound]
    ELSE SearchLoop(G, R, <<<<source_term, <<source_term>>>>>>, {source_term},
                    0, target_term, max_depth)

\* find_path whose queue starts one level down, so that depth 0 still expands
find_path_ExpandsFirst(T, G, R, source_term, target_term, max_depth) ==
    IF source_term \notin TermKeys(T) \/ target_term \notin TermKeys(T)
    THEN [path_exists |-> FALSE, has_path |-> FALSE, path |-> <<>>,
          message |-> MsgTermsNotFound]
    ELSE IF source_term = target_term
    THEN [path_exists |-> TRUE, has_path |-> TRUE, path |-> <<source_term>>,
          message |-> MsgSameTerms]
    ELSE SearchLoop(G, R, <<<<source_term, <<source_term>>>>>>, {source_term},
                    -1, target_term, max_depth)

\* find_path refusing only when both names are unknown: "and" for "or"
find_path_EitherKnown(T, G, R, source_term, target_term, max_depth) ==
    IF source_term \notin TermKeys(T) /\ target_term \notin TermKeys(T)
    THEN [path_exists |-> FALSE, has_path |-> FALSE, path |-> <<>>,
          message |-> MsgTermsNotFound]
    ELSE IF source_term = target_term
    THEN [path_exists |-> TRUE, has_path |-> TRUE, path |-> <<source_term>>,
          message |-> MsgSameTerms]
    ELSE SearchLoop(G, R, <<<<source_term, <<source_term>>>>>>, {source_term},
                    0, target_term, max_depth)

\* GlossaryGraph.find_path; has_path tells whether the dict has a 'path' key
find_path(T, G, R, source_term, target_term, max_depth) ==
    IF source_term \notin TermKeys(T) \/ target_term \notin TermKeys(T)
    THEN [path_exists |-> FALSE, has_path |-> FALSE, path |-> <<>>,
          message |-> MsgTermsNotFound]
    ELSE IF source_term = target_term
    THEN [path_exists |-> TRUE, has_path |-> TRUE, path |-> <<source_term>>,
          message |-> MsgSameTerms]
    ELSE SearchLoop(G, R, <<<<source_term, <<source_term>>>>>>, {source_term},
                    0, target_term, max_depth)

\* the names whose forward list and whose reverse list one expansion round
\* reads, from queue position i on
RECURSIVE LevelReads(_, _, _, _, _, _, _)
LevelReads(G, R, queue, i, visited, next_level, target_term) ==
    IF i > Len(queue)
    THEN [forward |-> {}, reverse |-> {}]
    ELSE LET current == queue[i][1]
             fwd == ScanNeighbors(AdjRead(G, current).items, 1, queue[i][2],
                                  visited, next_level, target_term)
             r == ExpandEntry(G, R, queue[i], visited, next_level, target_term)
             rest == LevelReads(G, R, queue, i + 1, r.visited, r.next_level,
                                target_term)
         IN  IF fwd.found THEN [forward |-> {current}, reverse |-> {}]
             ELSE IF r.found THEN [forward |-> {current}, reverse |-> {current}]
             ELSE [forward |-> {current} \cup rest.forward,
                   reverse |-> {current} \cup rest.reverse]

\* the names whose lists the while loop of find_path reads
RECURSIVE SearchReads(_, _, _, _, _, _, _)
SearchReads(G, R, queue, visited, depth, target_term, max_depth) ==
    IF queue # <<>> /\ depth < max_depth
    THEN LET r == ExpandLevel(G, R, queue, 1, visited, <<>>, target_term)
             here == LevelReads(G, R, queue, 1, visited, <<>>, target_term)
             rest == SearchReads(G, R, r.next_level, r.visited, depth + 1,
                                 target_term, max_depth)
         IN  IF r.found THEN here
             ELSE [forward |-> here.forward \cup rest.forward,
                   reverse |-> here.reverse \cup rest.reverse]
    ELSE [forward |-> {}, reverse |-> {}]

\* the names whose lists find_path reads in self.graph and self.reverse_graph
find_path_reads(T, G, R, source_term, target_term, max_depth) ==
    IF \/ source_term \notin TermKeys(T)
       \/ target_term \notin TermKeys(T)
       \/ source_term = target_term
    THEN [forward |-> {}, reverse |-> {}]
    ELSE SearchReads(G, R, <<<<source_term, <<source_term>>>>>>, {source_term},
                     0, target_term, max_depth)

(* ---------- state machine ---------- *)
\* a string field of a response message set from a Python value: None leaves
\* the field at its default, the empty string
ProtoString(v) == IF v = None THEN "" ELSE v


Init ==
    /\ pc = "load_terms"
    /\ terms = <<>>
    /\ graph = EmptyAdj
    /\ reverse_graph = EmptyAdj
    /\ terms_rows = <<>>
    /\ links_rows = <<>>
    /\ response = [op |-> "none"]
    /\ terms_file \in FileStates
    /\ links_file \in FileStates
    /\ search = [w \in Workers |-> IdleSearch]

\* open(terms_file) raises FileNotFoundError: sys.exit(1)
TermsFileMissing ==
    /\ pc = "load_terms"
    /\ terms_file = "absent"
    /\ pc' = "aborted"
    /\ UNCHANGED <<terms, graph, reverse_graph, terms_rows, links_rows, response,
                   terms_file, links_file, search>>

\* row['term'] or row['definition'] raises KeyError on the first row of a file
\* whose header lacks the column; nothing catches it
TermRowKeyError ==
    /\ pc = "load_terms"
    /\ terms_file = "no_column"
    /\ pc' = "crashed"
    /\ UNCHANGED <<terms, graph, reverse_graph, terms_rows, links_rows, response,
                   terms_file, links_file, search>>

\* the missing links file reported but the start-up carried on
LinksFileMissing_Continues ==
    /\ pc = "load_links"
    /\ links_file = "absent"
    /\ pc' = "serving"
    /\ UNCHANGED <<terms, graph, reverse_graph, terms_rows, links_rows, response,
                   terms_file, links_file, search>>

\* open(links_file) raises FileNotFoundError: sys.exit(1)
LinksFileMissing ==
    /\ pc = "load_links"
    /\ links_file = "absent"
    /\ pc' = "aborted"
    /\ UNCHANGED <<terms, graph, reverse_graph, terms_rows, links_rows, response,
                   terms_file, links_file, search>>

\* row['source'], row['target'] or row['relation'] raises KeyError on the first
\* row of a file whose header lacks the column; nothing catches it
LinkRowKeyError ==
    /\ pc = "load_links"
    /\ links_file = "no_column"
    /\ pc' = "crashed"
    /\ UNCHANGED <<terms, graph, reverse_graph, terms_rows, links_rows, response,
                   terms_file, links_file, search>>

\* one iteration of the reader loop of _load_terms
LoadTermRow(row, max) ==
    /\ pc = "load_terms"
    /\ terms_file = "ok"
    /\ Len(terms_rows) < max
    /\ terms' = DictPut(terms, row[1], row[2])
    /\ terms_rows' = Append(terms_rows, row)
    /\ UNCHANGED <<pc, graph, reverse_graph, links_rows, response,
                 terms_file, links_file, search>>

\* the reader of _load_terms is exhausted (a file without data rows never
\* reads a column); __init__ goes on to _load_links
TermsLoaded ==
    /\ pc = "load_terms"
    /\ terms_file # "absent"
    /\ pc' = "load_links"
    /\ UNCHANGED <<terms, graph, reverse_graph, terms_rows, links_rows, response,
                 terms_file, links_file, search>>

\* one iteration of the reader loop of _load_links
LoadLinkRow(row, max) ==
    /\ pc = "load_links"
    /\ links_file = "ok"
    /\ Len(links_rows) < max
    /\ graph' = AdjAppend(graph, row[1], <<row[2], row[3]>>)
    /\ reverse_graph' = AdjAppend(reverse_graph, row[2], <<row[1], row[3]>>)
    /\ links_rows' = Append(links_rows, row)
    /\ UNCHANGED <<pc, terms, terms_rows, response,
                 terms_file, links_file, search>>

\* the reader of _load_links is exhausted; serve() starts the server
LinksLoaded ==
    /\ pc = "load_links"
    /\ links_file # "absent"
    /\ pc' = "serving"
    /\ UNCHANGED <<terms, graph, reverse_graph, terms_rows, links_rows, response,
                 terms_file, links_file, search>>

GetTerm(term_name) ==
    /\ pc = "serving"
    /\ response.op = "none"
    /\ LET result == get_term(terms, term_name)
       IN  response' =
             [op |-> "GetTerm", term_name |-> term_name,
              found |-> result.found,
              term |-> IF result.found
                       THEN <<ProtoString(result.name),
                              ProtoString(result.definition)>>
                       ELSE <<"", "">>]
    /\ UNCHANGED <<pc, terms, graph, reverse_graph, terms_rows, links_rows,
                 terms_file, links_file, search>>

GetAllTerms ==
    /\ pc = "serving"
    /\ response.op = "none"
    /\ LET terms_list == get_all_terms(terms)
       IN  response' =
             [op |-> "GetAllTerms",
              terms |-> [i \in 1 .. Len(terms_list) |->
                            <<ProtoString(terms_list[i].name),
                              ProtoString(terms_list[i].definition)>>],
              total_count |-> Len(terms_list)]
    /\ UNCHANGED <<pc, terms, graph, reverse_graph, terms_rows, links_rows,
                 terms_file, links_file, search>>

GetTermRelations(term_name, max_depth) ==
    /\ pc = "serving"
    /\ response.op = "none"
    /\ LET relations_list == get_term_relations(graph, reverse_graph, term_name)
       IN  response' =
             [op |-> "GetTermRelations", term_name |-> term_name,
              max_depth |-> max_depth,
              relations |-> [i \in 1 .. Len(relations_list) |->
                                <<ProtoString(relations_list[i].source_term),
                                  ProtoString(relations_list[i].target_term),
                                  ProtoString(relations_list[i].relation_type)>>],
              total_count |-> Len(relations_list)]
    /\ graph' = AdjRead(graph, term_name).dict
    /\ reverse_graph' = AdjRead(reverse_graph, term_name).dict
    /\ UNCHANGED <<pc, terms, terms_rows, links_rows, terms_file, links_file, search>>

\* a direct call of GlossaryGraph.find_path
CallFindPath(source_term, target_term, max_depth) ==
    /\ pc = "serving"
    /\ response.op = "none"
    /\ response' =
         [op |-> "find_path", source_term |-> source_term,
          target_term |-> target_term, max_depth |-> max_depth,
          result |-> find_path(terms, graph, reverse_graph,
                               source_term, target_term, max_depth)]
    /\ LET reads == find_path_reads(terms, graph, reverse_graph, source_term,
                                    target_term, max_depth)
       IN  /\ graph' = ReadKeys(graph, reads.forward)
           /\ reverse_graph' = ReadKeys(reverse_graph, reads.reverse)
    /\ UNCHANGED <<pc, terms, terms_rows, links_rows, terms_file, links_file, search>>

\* the depth bound with 1, the default of GetTermRelations, in place of 10
PathDepthOf_DefaultOne(max_depth) == IF max_depth > 0 THEN max_depth ELSE 1

\* the depth bound GlossaryService.FindPath passes on
PathDepthOf(max_depth) == IF max_depth > 0 THEN max_depth ELSE DefaultPathDepth

\* PathResponse(path=...) takes strings only: a None in the list raises
\* TypeError, and the call ends with an error status in place of a response
FindPath(source_term, target_term, max_depth) ==
    /\ pc = "serving"
    /\ response.op = "none"
    /\ LET result == find_path(terms, graph, reverse_graph, source_term,
                               target_term, PathDepthOf(max_depth))
           path == IF result.has_path THEN result.path ELSE <<>>
       IN  response' =
             IF \E i \in 1 .. Len(path) : path[i] = None
             THEN [op |-> "error", handler |-> "FindPath",
                   source_term |-> source_term, target_term |-> target_term,
                   max_depth |-> max_depth, exception |-> "TypeError"]
             ELSE [op |-> "FindPath", source_term |-> source_term,
                   target_term |-> target_term, max_depth |-> max_depth,
                   path |-> path,
                   path_exists |-> result.path_exists,
                   message |-> result.message]
    /\ LET reads == find_path_reads(terms, graph, reverse_graph, source_term,
                                    target_term, PathDepthOf(max_depth))
       IN  /\ graph' = ReadKeys(graph, reads.forward)
           /\ reverse_graph' = ReadKeys(reverse_graph, reads.reverse)
    /\ UNCHANGED <<pc, terms, terms_rows, links_rows, terms_file, links_file, search>>

(* ---------- find_path, one expansion round at a time, per worker thread ---------- *)
\* the visited set of all running calls taken as one set
VisitedOf_Shared(S, w) ==
    UNION {S[v].visited : v \in {u \in Workers : S[u].status = "running"}}

\* "visited = {source_term}" is a local of the call: each worker has its own
VisitedOf(S, w) == S[w].visited

\* the names of the entries of a queue, in queue order
QueueNames(queue) == [i \in 1 .. Len(queue) |-> queue[i][1]]

\* StartSearch with the visited set starting empty: "visited = set()"
StartSearch_VisitedEmpty(w, source_term, target_term, max_depth) ==
    /\ pc = "serving"
    /\ search[w].status = "idle"
    /\ search' = [search EXCEPT ![w] =
         IF \/ source_term \notin TermKeys(terms)
            \/ target_term \notin TermKeys(terms)
            \/ source_term = target_term
         THEN [status |-> "done", source_term |-> source_term,
               target_term |-> target_term, max_depth |-> max_depth,
               result |-> find_path(terms, graph, reverse_graph, source_term,
                                    target_term, max_depth),
               rounds |-> 0, entered |-> <<>>]
         ELSE [status |-> "running", source_term |-> source_term,
               target_term |-> target_term, max_depth |-> max_depth,
               queue |-> <<<<source_term, <<source_term>>>>>>,
               visited |-> {}, depth |-> 0,
               rounds |-> 0, entered |-> <<source_term>>]]
    /\ UNCHANGED <<pc, terms, graph, reverse_graph, terms_rows, links_rows,
                   response, terms_file, links_file>>

\* a worker takes a FindPath request and runs find_path up to the while loop
StartSearch(w, source_term, target_term, max_depth) ==
    /\ pc = "serving"
    /\ search[w].status = "idle"
    /\ search' = [search EXCEPT ![w] =
         IF \/ source_term \notin TermKeys(terms)
            \/ target_term \notin TermKeys(terms)
            \/ source_term = target_term
         THEN [status |-> "done", source_term |-> source_term,
               target_term |-> target_term, max_depth |-> max_depth,
               result |-> find_path(terms, graph, reverse_graph, source_term,
                                    target_term, max_depth),
               rounds |-> 0, entered |-> <<>>]
         ELSE [status |-> "running", source_term |-> source_term,
               target_term |-> target_term, max_depth |-> max_depth,
               queue |-> <<<<source_term, <<source_term>>>>>>,
               visited |-> {source_term}, depth |-> 0,
               rounds |-> 0, entered |-> <<source_term>>]]
    /\ UNCHANGED <<pc, terms, graph, reverse_graph, terms_rows, links_rows,
                   response, terms_file, links_file>>

\* one pass of the while body: the loop condition holds, the queue is expanded
SearchRound(w) ==
    /\ pc = "serving"
    /\ search[w].status = "running"
    /\ search[w].queue # <<>>
    /\ search[w].depth < search[w].max_depth
    /\ LET me == search[w]
           r == ExpandLevel(graph, reverse_graph, me.queue, 1,
                            VisitedOf(search, w), <<>>, me.target_term)
           reads == LevelReads(graph, reverse_graph, me.queue, 1,
                               VisitedOf(search, w), <<>>, me.target_term)
       IN  /\ search' = [search EXCEPT ![w] =
                IF r.found
                THEN [status |-> "done", source_term |-> me.source_term,
                      target_term |-> me.target_term,
                      max_depth |-> me.max_depth,
                      result |-> [path_exists |-> TRUE, has_path |-> TRUE,
                                  path |-> r.path, message |-> MsgPathFound],
                      rounds |-> me.rounds + 1, entered |-> me.entered]
                ELSE [me EXCEPT !.queue = r.next_level,
                                !.visited = r.visited,
                                !.depth = me.depth + 1,
                                !.rounds = me.rounds + 1,
                                !.entered = me.entered \o QueueNames(r.next_level)]]
           /\ graph' = ReadKeys(graph, reads.forward)
           /\ reverse_graph' = ReadKeys(reverse_graph, reads.reverse)
    /\ UNCHANGED <<pc, terms, terms_rows, links_rows, response,
                   terms_file, links_file>>

\* the loop condition fails: "return {'path_exists': False, 'path': [], ...}"
SearchExit(w) ==
    /\ pc = "serving"
    /\ search[w].status = "running"
    /\ ~ (search[w].queue # <<>> /\ search[w].depth < search[w].max_depth)
    /\ search' = [search EXCEPT ![w] =
         [status |-> "done", source_term |-> search[w].source_term,
          target_term |-> search[w].target_term,
          max_depth |-> search[w].max_depth,
          result |-> [path_exists |-> FALSE, has_path |-> TRUE, path |-> <<>>,
                      message |-> MsgPathNotFound],
          rounds |-> search[w].rounds, entered |-> search[w].entered]]
    /\ UNCHANGED <<pc, terms, graph, reverse_graph, terms_rows, links_rows,
                   response, terms_file, links_file>>

\* the call has returned: the worker is free for the next request
SearchReturn(w) ==
    /\ pc = "serving"
    /\ search[w].status = "done"
    /\ search' = [search EXCEPT ![w] = IdleSearch]
    /\ UNCHANGED <<pc, terms, graph, reverse_graph, terms_rows, links_rows,
                   response, terms_file, links_file>>

\* the response is handed to the caller; the server waits for the next request
Reply ==
    /\ pc = "serving"
    /\ response.op # "none"
    /\ response' = [op |-> "none"]
    /\ UNCHANGED <<pc, terms, graph, reverse_graph, terms_rows, links_rows,
                 terms_file, links_file, search>>

\* the load ends the process
LoadFails ==
    \/ TermsFileMissing
    \/ TermRowKeyError
    \/ LinksFileMissing
    \/ LinkRowKeyError

Next ==
    \/ \E row \in TermRows : LoadTermRow(row, MaxTermRows)
    \/ TermsLoaded
    \/ \E row \in LinkRows : LoadLinkRow(row, MaxLinkRows)
    \/ LinksLoaded
    \/ LoadFails
    \/ \E n \in Names : GetTerm(n)
    \/ GetAllTerms
    \/ \E n \in Names, m \in RelationDepthArgs : GetTermRelations(n, m)
    \/ Reply

Spec == Init /\ [][Next]_vars

\* path search called directly with every depth bound, on larger link files
NextPath ==
    \/ \E row \in SearchTermRows : LoadTermRow(row, MaxTermRows)
    \/ TermsLoaded
    \/ \E row \in PathLinkRows : LoadLinkRow(row, MaxPathLinkRows)
    \/ LinksLoaded
    \/ LoadFails
    \/ \E s \in Names, t \in Names, d \in DepthBounds : CallFindPath(s, t, d)
    \/ Reply

SpecPath == Init /\ [][NextPath]_vars

\* the FindPath handler next to direct calls of find_path
NextService ==
    \/ \E row \in PathTermRows : LoadTermRow(row, MaxTermRows)
    \/ TermsLoaded
    \/ \E row \in PathLinkRows : LoadLinkRow(row, MaxLinkRows)
    \/ LinksLoaded
    \/ LoadFails
    \/ \E s \in Names, t \in Names, d \in DepthBounds : CallFindPath(s, t, d)
    \/ \E s \in Names, t \in Names, m \in DepthArgs : FindPath(s, t, m)
    \/ Reply

SpecService == Init /\ [][NextService]_vars

\* every query of the graph and of the service, also about the empty name
NextQueries ==
    \/ \E row \in SearchTermRows : LoadTermRow(row, MaxTermRows)
    \/ TermsLoaded
    \/ \E row \in PathLinkRows : LoadLinkRow(row, MaxLinkRows)
    \/ LinksLoaded
    \/ LoadFails
    \/ \E n \in QueryNames : GetTerm(n)
    \/ GetAllTerms
    \/ \E n \in QueryNames, m \in RelationDepthArgs : GetTermRelations(n, m)
    \/ \E s \in QueryNames, t \in QueryNames, d \in DepthBounds :
           CallFindPath(s, t, d)
    \/ \E s \in QueryNames, t \in QueryNames, m \in DepthArgs : FindPath(s, t, m)
    \/ Reply

SpecQueries == Init /\ [][NextQueries]_vars

\* input files with short rows, and the queries of the service
NextRows ==
    \/ \E row \in RowsTermRows : LoadTermRow(row, MaxTermRows)
    \/ TermsLoaded
    \/ \E row \in RowsLinkRows : LoadLinkRow(row, MaxLinkRows)
    \/ LinksLoaded
    \/ LoadFails
    \/ \E n \in Names : GetTerm(n)
    \/ GetAllTerms
    \/ \E n \in Names, m \in RelationDepthArgs : GetTermRelations(n, m)
    \/ \E s \in LoadNames, t \in LoadNames, m \in DepthArgs : FindPath(s, t, m)
    \/ Reply

SpecRows == Init /\ [][NextRows]_vars

\* two FindPath requests in flight at once, each on its own worker thread
NextWorkers ==
    \/ \E row \in SearchTermRows : LoadTermRow(row, MaxTermRows)
    \/ TermsLoaded
    \/ \E row \in PathLinkRows : LoadLinkRow(row, MaxLinkRows)
    \/ LinksLoaded
    \/ LoadFails
    \/ \E w \in Workers, s \in SearchNames, t \in SearchNames :
           StartSearch(w, s, t, MaxDepth)
    \/ \E w \in Workers : SearchRound(w)
    \/ \E w \in Workers : SearchExit(w)
    \/ \E w \in Workers : SearchReturn(w)

SpecWorkers == Init /\ [][NextWorkers]_vars

\* one FindPath request at a time, followed round by round
NextSearch ==
    \/ \E row \in SearchTermRows : LoadTermRow(row, MaxTermRows)
    \/ TermsLoaded
    \/ \E row \in PathLinkRows : LoadLinkRow(row, MaxPathLinkRows)
    \/ LinksLoaded
    \/ LoadFails
    \/ \E s \in SearchNames, t \in SearchNames, d \in DepthBounds :
           StartSearch("w1", s, t, d)
    \/ SearchRound("w1")
    \/ SearchExit("w1")
    \/ SearchReturn("w1")

SpecSearch == Init /\ [][NextSearch]_vars

\* one FindPath request at a time over relations with two routes of equal length
NextTies ==
    \/ \E row \in SearchTermRows : LoadTermRow(row, MaxTermRows)
    \/ TermsLoaded
    \/ \E row \in TieLinkRows : LoadLinkRow(row, MaxTieLinkRows)
    \/ LinksLoaded
    \/ LoadFails
    \/ \E s \in SearchNames, t \in SearchNames : StartSearch("w1", s, t, MaxDepth)
    \/ SearchRound("w1")
    \/ SearchExit("w1")
    \/ SearchReturn("w1")

SpecTies == Init /\ [][NextTies]_vars

(* ---------- what the claims speak about ---------- *)
\* forward[name] and reverse[name], a missing key read as the empty sequence
Forward(name) == IF name \in DOMAIN graph THEN graph[name] ELSE <<>>
Reverse(name) == IF name \in DOMAIN reverse_graph THEN reverse_graph[name] ELSE <<>>

\* the names a sequence of pairs holds in its first component
FirstsOf(adj) == {adj[i][1] : i \in 1 .. Len(adj)}

\* a loaded relation joins a and b, in either direction
Linked(a, b) ==
    \E i \in 1 .. Len(links_rows) :
        \/ links_rows[i][1] = a /\ links_rows[i][2] = b
        \/ links_rows[i][1] = b /\ links_rows[i][2] = a

\* the names some walk of at most k hops from x ends in
RECURSIVE Within(_, _)
Within(x, k) ==
    IF k <= 0 THEN {x}
    ELSE LET W == Within(x, k - 1)
         IN  W \cup {b \in Names : \E a \in W : Linked(a, b)}

IsFindPath == response.op = "find_path"
BothKnown ==
    /\ response.source_term \in TermKeys(terms)
    /\ response.target_term \in TermKeys(terms)

\* C1: a path find_path returns for distinct known names and a depth bound
\* d >= 1 has the least hop count: no walk with fewer hops, each hop along a
\* loaded relation in either direction, joins the source to the target.
C1_ShortestPath ==
    (/\ IsFindPath
     /\ BothKnown
     /\ response.source_term # response.target_term
     /\ response.max_depth >= 1
     /\ response.result.path_exists)
    => \A k \in 0 .. (Len(response.result.path) - 2) :
           response.target_term \notin Within(response.source_term, k)

\* a one-hop path is returned although a two-hop walk through a third name exists
C1_Witness ==
    /\ IsFindPath
    /\ BothKnown
    /\ response.result.path_exists
    /\ Len(response.result.path) = 2
    /\ \E b \in Names \ {response.source_term, response.target_term} :
           Linked(response.source_term, b) /\ Linked(b, response.target_term)

\* C2: a path find_path returns starts with the source, ends with the target,
\* has at most d + 1 names, and each consecutive pair (a, b) has b in
\* forward[a] or b in reverse[a].
C2_ValidWalk ==
    (IsFindPath /\ response.result.path_exists)
    => LET path == response.result.path
       IN  /\ Len(path) >= 1
           /\ path[1] = response.source_term
           /\ path[Len(path)] = response.target_term
           /\ Len(path) <= response.max_depth + 1
           /\ \A i \in 1 .. (Len(path) - 1) :
                  \/ path[i + 1] \in FirstsOf(Forward(path[i]))
                  \/ path[i + 1] \in FirstsOf(Reverse(path[i]))

\* a path of d + 1 names with a hop against the stored direction
C2_Witness ==
    /\ IsFindPath
    /\ response.result.path_exists
    /\ Len(response.result.path) = response.max_depth + 1
    /\ Len(response.result.path) = 3
    /\ response.result.path[2] \notin FirstsOf(Forward(response.result.path[1]))

\* C3: for distinct known names, find_path answers path_exists=false exactly
\* when no walk of at most d hops joins them: a target d hops away is found,
\* a target d + 1 hops away is not.
C3_NotFoundOnlyIfTooFar ==
    (/\ IsFindPath
     /\ BothKnown
     /\ response.source_term # response.target_term)
    => (response.result.path_exists
        <=> response.target_term
              \in Within(response.source_term, response.max_depth))

\* the target is d + 1 hops away and is not found
C3_Witness ==
    /\ IsFindPath
    /\ BothKnown
    /\ response.max_depth >= 1
    /\ ~response.result.path_exists
    /\ response.target_term
         \in Within(response.source_term, response.max_depth + 1)
    /\ response.target_term
         \notin Within(response.source_term, response.max_depth)

IsFindPathReply == response.op = "FindPath"

\* C4: when the source or the target is not a key of the term store, find_path
\* answers path_exists=false with no path and a non-empty message, and so does
\* FindPath, for every depth bound, also when the absent name is an endpoint of
\* loaded relations and when source = target.
C4_UnknownTerm ==
    /\ (IsFindPath /\ ~BothKnown)
       => /\ ~response.result.path_exists
          /\ ~response.result.has_path
          /\ response.result.message # ""
    /\ (IsFindPathReply /\ ~BothKnown)
       => /\ ~response.path_exists
          /\ response.path = <<>>
          /\ response.message # ""

\* source = target, absent from the term store, an endpoint of a loaded relation
C4_Witness ==
    /\ IsFindPath
    /\ response.source_term = response.target_term
    /\ response.source_term \notin TermKeys(terms)
    /\ \E b \in Names : Linked(response.source_term, b)
    /\ ~response.result.path_exists

\* C5: for a name x of the term store and a depth bound d >= 0,
\* find_path(x, x, d) answers path_exists=true with the path [x], whatever
\* forward and reverse hold.
C5_TrivialPath ==
    (/\ IsFindPath
     /\ response.source_term = response.target_term
     /\ response.source_term \in TermKeys(terms)
     /\ response.max_depth >= 0)
    => /\ response.result.path_exists
       /\ response.result.has_path
       /\ response.result.path = <<response.source_term>>

\* x is asked with depth 0 while relations start and end at x
C5_Witness ==
    /\ IsFindPath
    /\ response.source_term = response.target_term
    /\ response.source_term \in TermKeys(terms)
    /\ response.max_depth = 0
    /\ Forward(response.source_term) # <<>>
    /\ Reverse(response.source_term) # <<>>
    /\ response.result.path = <<response.source_term>>

\* C6: find_path(x, y, 0) answers path_exists=false for x # y, whatever joins
\* x and y.
C6_DepthZero ==
    (/\ IsFindPath
     /\ response.source_term # response.target_term
     /\ response.max_depth = 0)
    => ~response.result.path_exists

\* two known names one relation apart, asked with depth 0
C6_Witness ==
    /\ IsFindPath
    /\ BothKnown
    /\ response.source_term # response.target_term
    /\ response.max_depth = 0
    /\ Linked(response.source_term, response.target_term)
    /\ ~response.result.path_exists

\* C7: FindPath with a requested max depth <= 0 answers what find_path answers
\* with depth bound 10, and with a requested max depth m > 0 what find_path
\* answers with depth bound m (a result without a path gives the empty path).
C7_FindPathDepth ==
    IsFindPathReply
    => LET bound == IF response.max_depth <= 0 THEN 10 ELSE response.max_depth
           result == find_path(terms, graph, reverse_graph, response.source_term,
                               response.target_term, bound)
       IN  /\ response.path_exists = result.path_exists
           /\ response.path = (IF result.has_path THEN result.path ELSE <<>>)
           /\ response.message = result.message

\* a request without a depth finds a path of two hops
C7_Witness ==
    /\ IsFindPathReply
    /\ response.max_depth <= 0
    /\ response.path_exists
    /\ Len(response.path) = 3

\* the rows of links.csv whose source is name, and those whose target is name
SourceIs(name) == LET Test(row) == row[1] = name IN SelectSeq(links_rows, Test)
TargetIs(name) == LET Test(row) == row[2] = name IN SelectSeq(links_rows, Test)

\* C8: after every prefix of the relation rows, forward[s] is the sequence of
\* (target, type) of the rows with source s and reverse[t] the sequence of
\* (source, type) of the rows with target t, both in input order and with
\* duplicates kept.
C8_ReverseIsTranspose ==
    \A n \in Names :
        /\ Forward(n) = [i \in 1 .. Len(SourceIs(n)) |->
                            <<SourceIs(n)[i][2], SourceIs(n)[i][3]>>]
        /\ Reverse(n) = [i \in 1 .. Len(TargetIs(n)) |->
                            <<TargetIs(n)[i][1], TargetIs(n)[i][3]>>]
        /\ (n \in DOMAIN graph) = (SourceIs(n) # <<>>)
        /\ (n \in DOMAIN reverse_graph) = (TargetIs(n) # <<>>)

\* the same row was loaded twice
C8_Witness ==
    /\ Len(links_rows) = 2
    /\ links_rows[1] = links_rows[2]
    /\ Len(Forward(links_rows[1][1])) = 2

\* C9: get_term_relations(n) lists one record (n, t, type) per entry of
\* forward[n] in order, then one record (s, n, type) per entry of reverse[n] in
\* order, for a name known to the term store or not; total_count is
\* len(forward[n]) + len(reverse[n]).
C9_RelationsOf ==
    response.op = "GetTermRelations"
    => LET n == response.term_name
           F == Forward(n)
           R == Reverse(n)
       IN  /\ Len(response.relations) = Len(F) + Len(R)
           /\ response.total_count = Len(F) + Len(R)
           /\ \A i \in 1 .. Len(F) :
                  response.relations[i] = <<n, F[i][1], F[i][2]>>
           /\ \A i \in 1 .. Len(R) :
                  response.relations[Len(F) + i] = <<R[i][1], n, R[i][2]>>

\* a name outside the term store with a relation out and a relation in from
\* another name
C9_Witness ==
    /\ response.op = "GetTermRelations"
    /\ response.term_name \notin TermKeys(terms)
    /\ response.total_count = 2
    /\ response.relations[1][1] = response.term_name
    /\ response.relations[2][2] = response.term_name
    /\ response.relations[2][1] # response.term_name

\* the rows of terms.csv that carry name
RowsOf(name) == {i \in 1 .. Len(terms_rows) : terms_rows[i][1] = name}
\* the definition of the last row that carries name
LastDefinition(name) ==
    terms_rows[CHOOSE i \in RowsOf(name) : \A j \in RowsOf(name) : j <= i][2]
LoadedNames == {terms_rows[i][1] : i \in 1 .. Len(terms_rows)}

\* C10: after any sequence of term rows the term store maps each distinct name
\* to the definition of its last row: get_term finds exactly these names with
\* that definition, and GetAllTerms has one entry per distinct name, total_count
\* being their number.
C10_LastWriteWins ==
    /\ TermKeys(terms) = LoadedNames
    /\ \A n \in Names :
           get_term(terms, n) =
               IF n \in LoadedNames
               THEN [found |-> TRUE, name |-> n, definition |-> LastDefinition(n)]
               ELSE [found |-> FALSE]
    /\ response.op = "GetTerm"
       => /\ response.found = (response.term_name \in LoadedNames)
          /\ response.found
             => response.term = <<response.term_name,
                                  LastDefinition(response.term_name)>>
    /\ response.op = "GetAllTerms"
       => /\ response.total_count = Cardinality(LoadedNames)
          /\ Len(response.terms) = Cardinality(LoadedNames)
          /\ {response.terms[i] : i \in 1 .. Len(response.terms)}
               = {<<n, LastDefinition(n)>> : n \in LoadedNames}

\* a name loaded twice with two definitions is looked up
C10_Witness ==
    /\ response.op = "GetTerm"
    /\ response.found
    /\ Len(terms_rows) = 2
    /\ terms_rows[1][1] = response.term_name
    /\ terms_rows[2][1] = response.term_name
    /\ terms_rows[1][2] # terms_rows[2][2]

\* C11: once the load is over no query changes the term store, the forward
\* mapping or the reverse mapping, their key sets included: asking about a
\* name without a key makes no key.
C11_QueriesReadOnly ==
    [][pc = "serving"
       => /\ terms' = terms
          /\ graph' = graph
          /\ reverse_graph' = reverse_graph]_vars

\* a search has expanded a source that is a key of neither mapping
C11_Witness ==
    /\ IsFindPath
    /\ BothKnown
    /\ response.source_term # response.target_term
    /\ response.max_depth >= 1
    /\ response.source_term \notin DOMAIN graph
    /\ response.source_term \notin DOMAIN reverse_graph

\* C12: a query is answered only while the server serves, which it does only
\* after both loads ran to their end; when either input file is absent no
\* query is ever answered and the server never serves, also when the terms
\* were loaded and only the links file is missing.
C12_NoQueryBeforeLoad ==
    /\ response.op # "none" => pc = "serving"
    /\ pc = "load_terms" => (links_rows = <<>> /\ graph = EmptyAdj)
    /\ (terms_file = "absent" \/ links_file = "absent")
       => /\ pc # "serving"
          /\ response.op = "none"

\* the terms were loaded, the links file is missing, the process has exited
C12_Witness ==
    /\ pc = "aborted"
    /\ terms_rows # <<>>
    /\ terms_file = "ok"
    /\ links_file = "absent"
    /\ response.op = "none"

\* a row read so far lacks a field
ShortRowRead ==
    \/ \E i \in 1 .. Len(terms_rows) : terms_rows[i][2] = None
    \/ \E i \in 1 .. Len(links_rows) :
           links_rows[i][2] = None \/ links_rows[i][3] = None

\* C13: a term row or relation row that lacks a required field is fatal: the
\* process never serves and answers no query from a graph built from it.
C13_MissingFieldIsFatal ==
    ShortRowRead => (pc # "serving" /\ response.op = "none")

\* the name occurs in no row that was loaded
OccursNowhere(n) ==
    /\ n \notin TermKeys(terms)
    /\ n \notin DOMAIN graph
    /\ n \notin DOMAIN reverse_graph

\* C14: after a load that succeeded every query returns a result value, none
\* ends in an exception: for a name that is not known GetTerm gives
\* found=false, GetTermRelations an empty list with total_count 0, and FindPath
\* path_exists=false with an empty path and a non-empty message.
C14_EveryQueryAnswers ==
    /\ response.op # "error"
    /\ (response.op = "GetTerm" /\ response.term_name \notin TermKeys(terms))
       => ~response.found
    /\ (response.op = "GetTermRelations" /\ OccursNowhere(response.term_name))
       => (response.relations = <<>> /\ response.total_count = 0)
    /\ (IsFindPathReply /\ ~BothKnown)
       => /\ ~response.path_exists
          /\ response.path = <<>>
          /\ response.message # ""

\* C15: queries that run at the same time do not disturb one another: whatever
\* the other worker does meanwhile, a find_path call returns what the same call
\* returns when it runs alone
C15_ConcurrentAsAlone ==
    \A w \in Workers :
        search[w].status = "done" =>
            search[w].result = find_path(terms, graph, reverse_graph,
                                         search[w].source_term,
                                         search[w].target_term,
                                         search[w].max_depth)

\* a call has found a path of two steps while the other worker's call was
\* between two rounds
C15_Witness ==
    \E w \in Workers, v \in Workers :
        /\ w # v
        /\ search[w].status = "done"
        /\ search[w].result.path_exists
        /\ search[w].rounds = 2
        /\ search[v].status = "running"
        /\ search[v].rounds = 1

\* the names the loaded relations mention, as source or as target
RelationNames ==
    {links_rows[i][1] : i \in 1 .. Len(links_rows)}
        \cup {links_rows[i][2] : i \in 1 .. Len(links_rows)}

\* C16 as stated: every name of a path find_path returns with path_exists true
\* is a name of the term store, whatever names the relations mention.
C16_PathNamesAreTerms ==
    (IsFindPath /\ response.result.path_exists)
    => \A i \in 1 .. Len(response.result.path) :
           response.result.path[i] \in TermKeys(terms)

\* C16 amended: the first and the last name of a returned path are names of the
\* term store; every name between them is a name the loaded relations mention.
C16_EndsAreTerms ==
    (IsFindPath /\ response.result.path_exists)
    => LET path == response.result.path
       IN  /\ path[1] \in TermKeys(terms)
           /\ path[Len(path)] \in TermKeys(terms)
           /\ \A i \in 2 .. (Len(path) - 1) : path[i] \in RelationNames

\* a returned path of three names whose middle name is not in the term store
C16_Witness ==
    /\ IsFindPath
    /\ response.result.path_exists
    /\ Len(response.result.path) = 3
    /\ response.result.path[2] \notin TermKeys(terms)

Min(a, b) == IF a <= b THEN a ELSE b
Max(a, b) == IF a >= b THEN a ELSE b
\* the calls in progress or just finished
ActiveSearches == {w \in Workers : search[w].status \in {"running", "done"}}

\* C17 as stated: the number of expansion rounds of a find_path call is at most
\* min(maxDepth, number of distinct names in the relations).
C17_RoundsBound ==
    \A w \in ActiveSearches :
        search[w].rounds <= Min(search[w].max_depth, Cardinality(RelationNames))

\* C17 amended: the number of expansion rounds of a find_path call is at most
\* min(maxDepth, max(1, number of distinct names in the relations)), and while
\* the call runs every round has advanced its depth counter by one.
C17_RoundsBoundFromOne ==
    \A w \in ActiveSearches :
        /\ search[w].rounds
             <= Min(search[w].max_depth, Max(1, Cardinality(RelationNames)))
        /\ search[w].status = "running" =>
             /\ search[w].depth = search[w].rounds
             /\ search[w].depth <= search[w].max_depth

\* on a self-loop the search stopped after one round, below its depth bound,
\* because the frontier ran empty
C17_Witness ==
    \E w \in Workers :
        /\ search[w].status = "done"
        /\ ~ search[w].result.path_exists
        /\ search[w].rounds = 1
        /\ search[w].max_depth > 1
        /\ \E i \in 1 .. Len(links_rows) : links_rows[i][1] = links_rows[i][2]
        /\ Cardinality(RelationNames) = 1

\* no element occurs twice in the sequence
NoRepeat(seq) ==
    \A i \in 1 .. Len(seq) : \A j \in 1 .. Len(seq) : seq[i] = seq[j] => i = j

\* C19: between the rounds of a find_path call, and so at the start of every
\* round, with depth = k: each frontier entry (current, path) has a path of
\* k + 1 pairwise distinct names from the source to current; the current names
\* are pairwise distinct and all visited; no name was placed in a frontier
\* twice; the target is not visited. A returned path repeats no name.
C19_FrontierInvariant ==
    \A w \in Workers :
        /\ search[w].status = "running" =>
             LET me == search[w]
             IN  /\ \A i \in 1 .. Len(me.queue) :
                        LET current == me.queue[i][1]
                            path == me.queue[i][2]
                        IN  /\ Len(path) = me.depth + 1
                            /\ NoRepeat(path)
                            /\ path[1] = me.source_term
                            /\ path[Len(path)] = current
                 /\ NoRepeat(QueueNames(me.queue))
                 /\ \A i \in 1 .. Len(me.queue) : me.queue[i][1] \in me.visited
                 /\ NoRepeat(me.entered)
                 /\ me.target_term \notin me.visited
        /\ (search[w].status = "done" /\ search[w].result.path_exists) =>
             NoRepeat(search[w].result.path)

\* the start of the second round: the frontier holds one name, whose outgoing
\* relations lead back to the source
C19_Witness ==
    \E w \in Workers :
        /\ search[w].status = "running"
        /\ search[w].depth = 1
        /\ search[w].depth < search[w].max_depth
        /\ Len(search[w].queue) = 1
        /\ search[w].source_term \in FirstsOf(Forward(search[w].queue[1][1]))

\* the names of a sequence of pairs, in order
NamesOf(adj) == [i \in 1 .. Len(adj) |-> adj[i][1]]

\* the names the entries of a queue look at, in the order the round looks at
\* them: entry by entry, the outgoing names and then the incoming names, each
\* paired with the path of the entry that looks at it
RECURSIVE LookOrder(_, _)
LookOrder(queue, i) ==
    IF i > Len(queue) THEN <<>>
    ELSE LET both == NamesOf(Forward(queue[i][1])) \o NamesOf(Reverse(queue[i][1]))
         IN  [j \in 1 .. Len(both) |-> <<both[j], Append(queue[i][2], both[j])>>]
                 \o LookOrder(queue, i + 1)

\* the entries of seq, from position i on, whose name is not in seen and
\* occurs at no earlier position: the order of first discovery
RECURSIVE FirstDiscoveries(_, _, _)
FirstDiscoveries(seq, i, seen) ==
    IF i > Len(seq) THEN <<>>
    ELSE IF seq[i][1] \in seen THEN FirstDiscoveries(seq, i + 1, seen)
    ELSE <<seq[i]>> \o FirstDiscoveries(seq, i + 1, seen \cup {seq[i][1]})

\* the entries of the queue that have the target among their outgoing or
\* incoming names
TargetSeers(queue, target_term) ==
    {i \in 1 .. Len(queue) :
        target_term \in FirstsOf(Forward(queue[i][1]))
                            \cup FirstsOf(Reverse(queue[i][1]))}

\* C18: a round that sees the target returns path + [target] of the earliest
\* frontier entry that has the target in its outgoing or its incoming list; a
\* round that does not see it leaves as the next frontier the names first
\* discovered in that round, in the order entry by entry, outgoing before
\* incoming, each with the path of the entry that discovered it.
C18_TieBreak ==
    [][\A w \in Workers :
        (search[w].status = "running" /\ search'[w] # search[w]) =>
            LET me == search[w]
                seers == TargetSeers(me.queue, me.target_term)
            IN  IF me.queue = <<>> \/ me.depth >= me.max_depth
                THEN /\ search'[w].status = "done"
                     /\ ~ search'[w].result.path_exists
                ELSE IF seers # {}
                THEN /\ search'[w].status = "done"
                     /\ search'[w].result.path_exists
                     /\ LET first == CHOOSE i \in seers : \A k \in seers : i <= k
                        IN  search'[w].result.path
                              = Append(me.queue[first][2], me.target_term)
                ELSE /\ search'[w].status = "running"
                     /\ search'[w].queue
                          = FirstDiscoveries(LookOrder(me.queue, 1), 1,
                                             me.visited)]_vars

\* a path of three names was returned where a second route of the same length
\* through another name exists
C18_Witness ==
    \E w \in Workers :
        /\ search[w].status = "done"
        /\ search[w].result.path_exists
        /\ Len(search[w].result.path) = 3
        /\ \E m \in {"B", "D"} \ {search[w].result.path[2]} :
               Linked(search[w].source_term, m) /\ Linked(m, search[w].target_term)

\* C20: a path find_path returns for a depth bound d is the path it returns
\* for every larger bound; a search that fails for a bound fails for every
\* smaller bound.
C20_MonotoneInDepth ==
    IsFindPath =>
        LET x == response.source_term
            y == response.target_term
            d == response.max_depth
        IN  /\ response.result.path_exists =>
                 \A e \in (d + 1) .. (MaxDepth + 1) :
                     LET deeper == find_path(terms, graph, reverse_graph, x, y, e)
                     IN  /\ deeper.path_exists
                         /\ deeper.path = response.result.path
            /\ ~ response.result.path_exists =>
                 \A e \in 0 .. (d - 1) :
                     ~ find_path(terms, graph, reverse_graph, x, y, e).path_exists

\* a one-hop path returned for a bound below the largest, where a larger bound
\* also admits a route through a third name
C20_Witness ==
    /\ IsFindPath
    /\ response.result.path_exists
    /\ response.max_depth = 1
    /\ response.max_depth < MaxDepth
    /\ Len(response.result.path) = 2
    /\ Linked(response.source_term, "B")
    /\ Linked("B", response.target_term)

====
